---------------------------- MODULE Spec2Model ----------------------------
(***************************************************************************)
(* Model of the matching engine of the PCTE Lost & Found system            *)
(* (src/lost.py): the item table of DB, preprocess, and Matcher.build /    *)
(* Matcher.find_matches, with the TF-IDF fit/transform and the cosine      *)
(* similarity the Matcher calls, and the handlers of App that use them     *)
(* (submit_item, populate_matches).                                        *)
(*                                                                         *)
(* Texts are sequences of one-character strings.  Floats are fixed-point   *)
(* numbers of three decimals, SCALE standing for 1.0, and every float      *)
(* operation rounds its result to the nearest of them.                     *)
(***************************************************************************)
EXTENDS Integers, Sequences, FiniteSets, TLC

(***************************************************************************)
(* Bounds of the model.                                                    *)
(***************************************************************************)
MaxItems == 3      \* rows in the items table
MaxAdminCalls == 3 \* add_admin calls made after the one of _create

(***************************************************************************)
(* Generic sequence helpers.                                               *)
(***************************************************************************)
RECURSIVE SetToSeq(_)
\* Some enumeration of a finite set (used only to sum over a set).
SetToSeq(S) ==
    IF S = {} THEN <<>>
    ELSE LET x == CHOOSE y \in S : TRUE IN <<x>> \o SetToSeq(S \ {x})

Min(a, b) == IF a <= b THEN a ELSE b

Range(s) == {s[i] : i \in 1..Len(s)}

Take(s, n) == SubSeq(s, 1, Min(n, Len(s)))

\* the element of a one-element set
TheOnly(S) == CHOOSE x \in S : TRUE

\* floor of the square root of n >= 0, by bisection on the bit length
RECURSIVE ISqrtBits(_, _, _)
ISqrtBits(n, r, bit) ==
    IF bit = 0 THEN r
    ELSE IF (r + bit) * (r + bit) <= n
         THEN ISqrtBits(n, r + bit, bit \div 2)
         ELSE ISqrtBits(n, r, bit \div 2)

ISqrt(n) == ISqrtBits(n, 0, 16384)

\* a / b rounded to the nearest integer, for a >= 0 and b > 0
RoundDiv(a, b) == (2 * a + b) \div (2 * b)

\* the square root of n >= 0 rounded to the nearest integer
RoundSqrt(n) == LET r == ISqrt(n) IN IF n - r * r > r THEN r + 1 ELSE r

(***************************************************************************)
(* Characters and strings.  None is Python's None for a text column.       *)
(***************************************************************************)
None == <<"None">>

UpperChars == <<"A","B","C","D","E","F","G","H","I","J","K","L","M",
                "N","O","P","Q","R","S","T","U","V","W","X","Y","Z">>
LowerChars == <<"a","b","c","d","e","f","g","h","i","j","k","l","m",
                "n","o","p","q","r","s","t","u","v","w","x","y","z">>
UpperSet == Range(UpperChars)
Letters == UpperSet \cup Range(LowerChars)
Space == " "

RECURSIVE LowerMapFrom(_)
LowerMapFrom(i) ==
    IF i = Len(UpperChars) THEN UpperChars[i] :> LowerChars[i]
    ELSE (UpperChars[i] :> LowerChars[i]) @@ LowerMapFrom(i + 1)

\* the lowercase letter of each uppercase letter
LowerMap == LowerMapFrom(1)

\* str.lower() on one character
LowerChar(c) == IF c \in UpperSet THEN LowerMap[c] ELSE c

RECURSIVE Lower(_)
\* str.lower()
Lower(text) ==
    IF text = <<>> THEN <<>> ELSE <<LowerChar(Head(text))>> \o Lower(Tail(text))

\* str.isalpha(): non-empty and every character a letter
IsAlpha(tok) == tok # <<>> /\ \A i \in 1..Len(tok) : tok[i] \in Letters

\* a or '' for a nullable text column
OrEmpty(text) == IF text = None \/ text = <<>> THEN <<>> ELSE text

RECURSIVE SplitFrom(_, _, _)
\* the maximal runs of non-space characters of text[i..], cur being the run
\* read so far
SplitFrom(text, i, cur) ==
    IF i > Len(text)
    THEN IF cur = <<>> THEN <<>> ELSE <<cur>>
    ELSE IF text[i] = Space
         THEN (IF cur = <<>> THEN <<>> ELSE <<cur>>) \o SplitFrom(text, i + 1, <<>>)
         ELSE SplitFrom(text, i + 1, Append(cur, text[i]))

\* nltk word_tokenize on a text of letters, digits and spaces: the
\* whitespace-separated words
word_tokenize(text) == SplitFrom(text, 1, <<>>)

RECURSIVE JoinSpace(_)
\* ' '.join(tokens)
JoinSpace(toks) ==
    IF toks = <<>> THEN <<>>
    ELSE IF Len(toks) = 1 THEN toks[1]
    ELSE toks[1] \o <<Space>> \o JoinSpace(Tail(toks))

EndsWith(w, suf) ==
    Len(w) >= Len(suf) /\ SubSeq(w, Len(w) - Len(suf) + 1, Len(w)) = suf

DropLast(w, n) == SubSeq(w, 1, Len(w) - n)

(***************************************************************************)
(* Inputs.                                                                 *)
(***************************************************************************)
Types == {"lost", "found"}

Date == "2024-01-01"
Contact == "c"

\* the type argument left out (None) or ''
NoType == ""

\* a record as App.submit_item builds it (lines 444-453)
Item(id, type, name, description, place) ==
    [id |-> id, type |-> type, name |-> name, description |-> description,
     place |-> place, date |-> Date, contact |-> Contact, image_path |-> None]

RedBag == <<"R","e","d"," ","B","a","g">>
Bags == <<"b","a","g","s">>
\* a stopword and digits: preprocess leaves nothing of it
Garbage == <<"T","h","e"," ","4","2">>
\* a word no stored report has
Keys == <<"K","e","y","s">>

\* the reports that get stored: type, name, description, place
ItemPool ==
    { <<"found", RedBag, <<>>, None>>,
      <<"found", None, Bags, <<>>>>,
      <<"found", Garbage, <<>>, None>>,
      <<"lost", RedBag, Bags, <<>>>> }

\* name, description and place of the records find_matches is called with
\* that are not stored
\* the type tags a caller may pass to find_matches
QueryTypes == Types \cup {"other"}

\* the records find_matches is called with that are not stored (id 0 is the
\* id of no row); the first two have the name, description and place of a
\* report of the pool
Queries ==
    { Item(0, "lost", RedBag, <<>>, None),
      Item(0, "lost", Garbage, <<>>, None),
      Item(0, "lost", None, Keys, <<>>),
      Item(0, "other", RedBag, None, <<>>) }

\* topk: none, fewer than a corpus can hold, and the 3 that
\* populate_matches passes (line 509)
TopKs == {0, 2, 3}

\* the text of a record if the image path were part of it
ItemText_WithImagePath(it) ==
    OrEmpty(it.name) \o <<Space>> \o OrEmpty(it.description)
        \o <<Space>> \o OrEmpty(it.place) \o <<Space>> \o OrEmpty(it.image_path)

\* (it['name'] or '') + ' ' + (it['description'] or '') + ' ' + (it['place'] or '')
ItemText(it) ==
    OrEmpty(it.name) \o <<Space>> \o OrEmpty(it.description)
        \o <<Space>> \o OrEmpty(it.place)

RECURSIVE LStrip(_)
LStrip(text) ==
    IF text # <<>> /\ Head(text) = Space THEN LStrip(Tail(text)) ELSE text

RECURSIVE RStrip(_)
RStrip(text) ==
    IF text # <<>> /\ text[Len(text)] = Space
    THEN RStrip(SubSeq(text, 1, Len(text) - 1)) ELSE text

\* str.strip() on a text of letters, digits and spaces
Strip(text) == RStrip(LStrip(text))

\* the values of a type field the user types into
TypeVarValues_Typed == Types \cup {"other"}

\* the values of type_var: the two radio buttons of the form (lines 364-366)
TypeVarValues == Types

\* what the user enters in the name, description, place and contact fields
FormTexts ==
    { <<<<" ">> \o RedBag \o <<" ">>, <<>>, <<>>, <<"c">>>>,
      <<Garbage, <<" ">>, <<>>, <<>>>>,
      <<<<>>, Keys, <<>>, <<"c", " ">>>>,
      <<<<" ">>, <<>>, RedBag, <<"c">>>> }

\* the form as the widgets hold it
Form(type, name, description, place, contact) ==
    [type |-> type, name |-> name, description |-> description,
     place |-> place, contact |-> contact]

\* the contents the user gives the form
FormInputs ==
    {Form(t, x[1], x[2], x[3], x[4]) : t \in TypeVarValues, x \in FormTexts}

\* the texts the records of the model give to preprocess
KnownTexts ==
    {ItemText(Item(0, p[1], p[2], p[3], p[4])) : p \in ItemPool}
        \cup {ItemText(q) : q \in Queries}
        \cup {ItemText(Item(0, NoType, Strip(x[1]), Strip(x[2]), Strip(x[3]))) :
                 x \in FormTexts}

(***************************************************************************)
(* preprocess (src/lost.py:163-170) with the nltk pieces it calls.         *)
(***************************************************************************)
\* the members of nltk's English stopword list that the texts of this model
\* can produce
STOPWORDS ==
    { <<"a">>, <<"i">>, <<"s">>, <<"t">>,
      <<"t","h","e">>, <<"i","n">>, <<"o","f">>, <<"o","n">>,
      <<"i","s">>, <<"m","y">>, <<"o","w","n">>, <<"a","n","d">> }

\* PorterStemmer._step1a (NLTK_EXTENSIONS mode): the plural suffixes
Step1a(w) ==
    IF EndsWith(w, <<"i","e","s">>) /\ Len(w) = 4 THEN DropLast(w, 1)
    ELSE IF EndsWith(w, <<"s","s","e","s">>) THEN DropLast(w, 2)
    ELSE IF EndsWith(w, <<"i","e","s">>) THEN DropLast(w, 2)
    ELSE IF EndsWith(w, <<"s","s">>) THEN w
    ELSE IF EndsWith(w, <<"s">>) THEN DropLast(w, 1)
    ELSE w

\* PorterStemmer.stem: words of at most two letters are returned as they
\* are; the words of this model are fixed points of steps 1b to 5, so the
\* stem is the result of step 1a.
Stem(w) == IF Len(w) <= 2 THEN w ELSE Step1a(w)

RECURSIVE KeepWords(_)
\* [t for t in tokens if t.isalpha() and t not in STOPWORDS]
KeepWords(toks) ==
    IF toks = <<>> THEN <<>>
    ELSE (IF IsAlpha(Head(toks)) /\ Head(toks) \notin STOPWORDS
          THEN <<Head(toks)>> ELSE <<>>) \o KeepWords(Tail(toks))

RECURSIVE StemAll(_)
\* [STEMMER.stem(t) for t in tokens]
StemAll(toks) ==
    IF toks = <<>> THEN <<>> ELSE <<Stem(Head(toks))>> \o StemAll(Tail(toks))

\* the token list preprocess joins: lower, tokenize, filter, stem
PreprocessTokens(text) == StemAll(KeepWords(word_tokenize(Lower(text))))

preprocess(text) ==
    IF text = None \/ text = <<>> THEN <<>>
    ELSE JoinSpace(PreprocessTokens(text))

RECURSIVE PreprocessTable(_)
PreprocessTable(texts) ==
    IF texts = <<>> THEN <<>>
    ELSE (Head(texts) :> preprocess(Head(texts))) @@ PreprocessTable(Tail(texts))

\* preprocess tabulated once for the texts of the model
PreprocessMemo == PreprocessTable(SetToSeq(KnownTexts))

\* preprocess(text), read from the table when text is in it
Preprocessed(text) ==
    IF text \in KnownTexts THEN PreprocessMemo[text] ELSE preprocess(text)

(***************************************************************************)
(* TfidfVectorizer and cosine_similarity as Matcher uses them              *)
(* (src/lost.py:187 and 195-197), in fixed-point arithmetic: an idf of     *)
(* 1.0 is IdfOne, a vector component or a similarity of 1.0 is SCALE.      *)
(***************************************************************************)
IdfOne == 1000
SCALE == 1000

\* IdfOne * ln(n), rounded, for n = 1..12
LnTable == <<0, 693, 1099, 1386, 1609, 1792, 1946, 2079, 2197, 2303, 2398, 2485>>

RECURSIVE LongWords(_)
LongWords(toks) ==
    IF toks = <<>> THEN <<>>
    ELSE (IF Len(Head(toks)) >= 2 THEN <<Head(toks)>> ELSE <<>>)
             \o LongWords(Tail(toks))

\* the vectorizer's analyzer, token_pattern (?u)\b\w\w+\b: the words of at
\* least two characters
Analyze(doc) == LongWords(word_tokenize(Lower(doc)))

RECURSIVE AnalyzeTable(_)
AnalyzeTable(docs) ==
    IF docs = <<>> THEN <<>>
    ELSE (Head(docs) :> Analyze(Head(docs))) @@ AnalyzeTable(Tail(docs))

\* the preprocessed texts of the model
KnownDocs == {PreprocessMemo[t] : t \in KnownTexts}

\* Analyze tabulated once for the preprocessed texts of the model
AnalyzeMemo == AnalyzeTable(SetToSeq(KnownDocs))

\* Analyze(doc), read from the table when doc is in it
Analyzed(doc) == IF doc \in KnownDocs THEN AnalyzeMemo[doc] ELSE Analyze(doc)

RECURSIVE AnalyzeAll(_)
AnalyzeAll(texts) ==
    IF texts = <<>> THEN <<>>
    ELSE <<Analyzed(Head(texts))>> \o AnalyzeAll(Tail(texts))

RECURSIVE Count(_, _)
\* occurrences of t in the token list
Count(toks, t) ==
    IF toks = <<>> THEN 0
    ELSE (IF Head(toks) = t THEN 1 ELSE 0) + Count(Tail(toks), t)

RECURSIVE TermsOf(_)
\* the distinct tokens of the analyzed documents
TermsOf(docs) ==
    IF docs = <<>> THEN {} ELSE Range(Head(docs)) \cup TermsOf(Tail(docs))

\* the vocabulary CountVectorizer learns from the documents
Vocabulary(texts) == TermsOf(AnalyzeAll(texts))

\* fit raises ValueError("empty vocabulary") when no document has a token
FitRaises(texts) == Vocabulary(texts) = {}

RECURSIVE Df(_, _)
\* number of analyzed documents containing t
Df(docs, t) ==
    IF docs = <<>> THEN 0
    ELSE (IF Count(Head(docs), t) > 0 THEN 1 ELSE 0) + Df(Tail(docs), t)

\* smoothed idf: ln((1 + N) / (1 + df)) + 1
Idf(docs, t) == LnTable[1 + Len(docs)] - LnTable[1 + Df(docs, t)] + IdfOne

RECURSIVE IdfAll(_, _)
IdfAll(docs, terms) ==
    IF terms = <<>> THEN <<>>
    ELSE <<Idf(docs, Head(terms))>> \o IdfAll(docs, Tail(terms))

\* Matcher.vectorizer is None
NoVectorizer == [fitted |-> FALSE, terms |-> <<>>, idf |-> <<>>]

\* TfidfVectorizer().fit(texts), for texts with a non-empty vocabulary:
\* the vocabulary as a list of terms and the idf of each
Fit(texts) ==
    LET docs == AnalyzeAll(texts)
        terms == SetToSeq(TermsOf(docs))
    IN  [fitted |-> TRUE, terms |-> terms, idf |-> IdfAll(docs, terms)]

RECURSIVE Weights(_, _, _)
Weights(toks, terms, idf) ==
    IF terms = <<>> THEN <<>>
    ELSE <<Count(toks, Head(terms)) * Head(idf)>>
             \o Weights(toks, Tail(terms), Tail(idf))

RECURSIVE Dot(_, _)
Dot(x, y) ==
    IF x = <<>> THEN 0 ELSE Head(x) * Head(y) + Dot(Tail(x), Tail(y))

RECURSIVE DivideAll(_, _)
\* every component divided by norm, each quotient rounded
DivideAll(x, norm) ==
    IF x = <<>> THEN <<>>
    ELSE <<RoundDiv(Head(x) * SCALE, norm)>> \o DivideAll(Tail(x), norm)

RECURSIVE Ones(_)
Ones(x) == IF x = <<>> THEN <<>> ELSE <<1>> \o Ones(Tail(x))

\* normalize that smooths a zero row into the uniform row before dividing
Normalized_ZeroSmoothed(x) ==
    LET y == IF Dot(x, x) = 0 THEN Ones(x) ELSE x
    IN  IF y = <<>> THEN y ELSE DivideAll(y, RoundSqrt(Dot(y, y)))

\* sklearn normalize(row, norm='l2'): the row divided by the square root of
\* the sum of its squares, a zero row staying zero
Normalized(x) ==
    LET squares == Dot(x, x)
    IN  IF squares = 0 THEN x ELSE DivideAll(x, RoundSqrt(squares))

\* vectorizer.transform([doc])[0]: tf * idf per vocabulary term, terms
\* outside the vocabulary dropped, and the row l2-normalised
Transform(v, doc) == Normalized(Weights(Analyzed(doc), v.terms, v.idf))

\* cosine_similarity of two rows: both rows are l2-normalised once more and
\* multiplied
Cosine(x, y) == RoundDiv(Dot(Normalized(x), Normalized(y)), SCALE)

(***************************************************************************)
(* The items table of DB (src/lost.py:91-102, 138-157).  A table is the    *)
(* sequence of its rows in rowid order, which is the order SELECT returns  *)
(* them in.                                                                *)
(***************************************************************************)
\* the id column is the PRIMARY KEY: an INSERT of an id the table holds
\* raises sqlite3.IntegrityError
AddItemRaises(s, item) == \E i \in 1..Len(s) : s[i].id = item.id

RECURSIVE Replaced(_, _)
Replaced(s, item) ==
    IF s = <<>> THEN <<>>
    ELSE <<IF Head(s).id = item.id THEN item ELSE Head(s)>> \o Replaced(Tail(s), item)

\* add_item with INSERT OR REPLACE
add_item_OrReplace(s, item) ==
    IF AddItemRaises(s, item) THEN Replaced(s, item) ELSE Append(s, item)

\* add_item on a table whose id column is no key
add_item_NoKey(s, item) == Append(s, item)

\* DB.add_item: INSERT and commit
add_item(s, item) == IF AddItemRaises(s, item) THEN s ELSE Append(s, item)

RECURSIVE LikeMatch(_, _)
\* the LIKE operator of SQLite on a pattern and a text: '%' stands for any
\* run of characters, '_' for any one character, an ASCII letter for itself
\* in either case, and there is no escape character
LikeMatch(pat, text) ==
    IF pat = <<>> THEN text = <<>>
    ELSE IF Head(pat) = "%"
    THEN \E k \in 0..Len(text) :
            LikeMatch(Tail(pat), SubSeq(text, k + 1, Len(text)))
    ELSE /\ text # <<>>
         /\ \/ Head(pat) = "_"
            \/ LowerChar(Head(text)) = LowerChar(Head(pat))
         /\ LikeMatch(Tail(pat), Tail(text))

\* x LIKE '%search%' with the search text as the caller gave it: NULL never
\* matches
Like(text, search) ==
    /\ text # None
    /\ LikeMatch(<<"%">> \o search \o <<"%">>, text)

RECURSIVE SelectRows(_, _, _, _, _)
\* the rows satisfying the WHERE clause: "type=?" when byType, the three
\* LIKE tests when bySearch
SelectRows(s, byType, type, bySearch, search) ==
    IF s = <<>> THEN <<>>
    ELSE LET it == Head(s)
             typeOk == byType => it.type = type
             searchOk == bySearch =>
                           \/ Like(it.name, search)
                           \/ Like(it.description, search)
                           \/ Like(it.place, search)
         IN  (IF typeOk /\ searchOk THEN <<it>> ELSE <<>>)
                 \o SelectRows(Tail(s), byType, type, bySearch, search)

\* get_items that drops the type filter
get_items_AnyType(s, type, search) ==
    SelectRows(s, FALSE, type, search # None /\ search # <<>>, search)

\* DB.get_items(type, search): a falsy argument (None or '') selects the
\* branch without that filter
get_items(s, type, search) ==
    SelectRows(s, type # NoType, type, search # None /\ search # <<>>, search)

(***************************************************************************)
(* Matcher (src/lost.py:173-207).                                          *)
(***************************************************************************)
\* 'found' if item['type']=='lost' else 'lost'
Opposite(type) == IF type = "lost" THEN "found" ELSE "lost"

RECURSIVE IdsOf(_)
\* [it['id'] for it in items]
IdsOf(items) ==
    IF items = <<>> THEN <<>> ELSE <<Head(items).id>> \o IdsOf(Tail(items))

RECURSIVE TextsOf(_)
\* [preprocess(name + ' ' + description + ' ' + place) for it in items]
TextsOf(items) ==
    IF items = <<>> THEN <<>>
    ELSE <<Preprocessed(ItemText(Head(items)))>> \o TextsOf(Tail(items))

\* build without the test for an empty corpus (lines 184-186)
build_NoEmptyTest(v, items) ==
    LET texts == TextsOf(items)
    IN  [corpus_ids |-> IdsOf(items),
         corpus_texts |-> texts,
         raised |-> FitRaises(texts),
         vectorizer |-> IF FitRaises(texts) THEN v ELSE Fit(texts)]

\* build that keeps a vectorizer it already has instead of fitting again
build_KeepFitted(v, items) ==
    LET texts == TextsOf(items)
    IN  [corpus_ids |-> IdsOf(items),
         corpus_texts |-> texts,
         raised |-> Len(texts) # 0 /\ ~v.fitted /\ FitRaises(texts),
         vectorizer |-> IF Len(texts) = 0 THEN NoVectorizer
                        ELSE IF v.fitted \/ FitRaises(texts) THEN v
                        ELSE Fit(texts)]

\* Matcher.build on the rows the table returns, v being self.vectorizer
\* before the call: corpus_ids and corpus_texts are assigned first, and
\* when fit raises the exception leaves self.vectorizer as it was
build(v, items) ==
    LET ids == IdsOf(items)
        texts == TextsOf(items)
        raises == Len(texts) # 0 /\ FitRaises(texts)
    IN  [corpus_ids |-> ids,
         corpus_texts |-> texts,
         raised |-> raises,
         vectorizer |-> IF Len(texts) = 0 THEN NoVectorizer
                        ELSE IF raises THEN v
                        ELSE Fit(texts)]

RECURSIVE SimsTo(_, _, _)
SimsTo(v, qv, texts) ==
    IF texts = <<>> THEN <<>>
    ELSE <<Cosine(qv, Transform(v, Head(texts)))>> \o SimsTo(v, qv, Tail(texts))

\* cosine_similarity(qv, corpus_v)[0], lines 194-197
Sims(v, texts, item) == SimsTo(v, Transform(v, Preprocessed(ItemText(item))), texts)

RECURSIVE Zip(_, _)
\* list(zip(self.corpus_ids, sims))
Zip(ids, sims) ==
    IF ids = <<>> \/ sims = <<>> THEN <<>>
    ELSE <<[id |-> Head(ids), score |-> Head(sims)]>> \o Zip(Tail(ids), Tail(sims))

RECURSIVE InsertDesc(_, _)
\* x put behind every pair whose score is not smaller
InsertDesc(sorted, x) ==
    IF sorted = <<>> THEN <<x>>
    ELSE IF Head(sorted).score >= x.score
         THEN <<Head(sorted)>> \o InsertDesc(Tail(sorted), x)
         ELSE <<x>> \o sorted

RECURSIVE InsertAsc(_, _)
InsertAsc(sorted, x) ==
    IF sorted = <<>> THEN <<x>>
    ELSE IF Head(sorted).score <= x.score
         THEN <<Head(sorted)>> \o InsertAsc(Tail(sorted), x)
         ELSE <<x>> \o sorted

RECURSIVE SortedAsc(_)
\* sorted(pairs, key=lambda x: x[1]): the sort without reverse=True
SortedAsc(pairs) ==
    IF pairs = <<>> THEN <<>>
    ELSE InsertAsc(SortedAsc(SubSeq(pairs, 1, Len(pairs) - 1)), pairs[Len(pairs)])

\* sorted(pairs, key=lambda x: x[1])[::-1]: descending, ties turned round
SortedThenReversed(pairs) ==
    LET asc == SortedAsc(pairs)
    IN  [i \in 1..Len(asc) |-> asc[Len(asc) + 1 - i]]

RECURSIVE SortedDesc(_)
\* sorted(pairs, key=lambda x: x[1], reverse=True): descending and stable
SortedDesc(pairs) ==
    IF pairs = <<>> THEN <<>>
    ELSE InsertDesc(SortedDesc(SubSeq(pairs, 1, Len(pairs) - 1)), pairs[Len(pairs)])

\* ranked, line 198
Ranked(v, ids, texts, item) == SortedDesc(Zip(ids, Sims(v, texts, item)))

\* it['_score'] = float(score) on the dict get_items built for the row
WithScore(it, score) ==
    [id |-> it.id, type |-> it.type, name |-> it.name,
     description |-> it.description, place |-> it.place, date |-> it.date,
     contact |-> it.contact, image_path |-> it.image_path, _score |-> score]

RECURSIVE Join(_, _)
\* the loop of lines 201-206 over ranked[:topk], already sliced
Join(top, all_opposite) ==
    IF top = <<>> THEN <<>>
    ELSE LET rows == SelectSeq(all_opposite, LAMBDA it : it.id = Head(top).id)
         IN  (IF rows # <<>> THEN <<WithScore(rows[1], Head(top).score)>> ELSE <<>>)
                 \o Join(Tail(top), all_opposite)

RECURSIVE ScoresWritten(_, _)
ScoresWritten(s, results) ==
    IF s = <<>> THEN <<>>
    ELSE LET hit == SelectSeq(results, LAMBDA r : r.id = Head(s).id)
         IN  <<IF hit # <<>> THEN hit[1] ELSE Head(s)>>
                 \o ScoresWritten(Tail(s), results)

\* the table if the dicts of all_opposite were the stored rows themselves
StoreAfterJoin_Aliased(s, results) == ScoresWritten(s, results)

\* the table after the loop: the dicts of all_opposite are copies made by
\* get_items, so the '_score' assignments do not reach the rows
StoreAfterJoin(s, results) == s

\* Matcher.find_matches(item, topk), v being self.vectorizer before the
\* call, items the rows the fetch of build returns and later the table at
\* the fetch of line 200.  fetches counts the get_items calls made,
\* vectorized tells whether line 195 was reached, matcher is the Matcher
\* fields as build left them.
find_matches(v, items, later, item, topk) ==
    LET b == build(v, items)
    IN  IF b.raised
        THEN [status |-> "raised", fetches |-> 1, vectorized |-> FALSE,
              ranked |-> <<>>, results |-> <<>>, matcher |-> b]
        ELSE IF ~b.vectorizer.fitted
        THEN [status |-> "returned", fetches |-> 1, vectorized |-> FALSE,
              ranked |-> <<>>, results |-> <<>>, matcher |-> b]
        ELSE LET ranked == Ranked(b.vectorizer, b.corpus_ids, b.corpus_texts, item)
                 all_opposite == get_items(later, Opposite(item.type), None)
             IN  [status |-> "returned", fetches |-> 2, vectorized |-> TRUE,
                  ranked |-> ranked,
                  results |-> Join(Take(ranked, topk), all_opposite),
                  matcher |-> b]

(***************************************************************************)
(* The admin table of DB (src/lost.py:103-136).  A table is the sequence   *)
(* of its rows in rowid order; username is UNIQUE.                         *)
(***************************************************************************)
\* the names and passwords the calls are made with
AdminNames == {"admin", "bob"}
Passwords == {"admin123", "secret"}

\* hashlib.sha256(password.encode()).hexdigest(), by its first eight digits
hash_password(password) ==
    CASE password = "admin123" -> "240be518"
      [] password = "secret" -> "2bb80d53"
      [] password = "" -> "e3b0c442"

\* hexdigest of the password = hashval
verify_hash(password, hashval) == hash_password(password) = hashval

\* the INSERT fails on the UNIQUE username
AddAdminRaises(t, username) == \E i \in 1..Len(t) : t[i].username = username

RECURSIVE Rehashed(_, _, _)
Rehashed(t, username, ph) ==
    IF t = <<>> THEN <<>>
    ELSE <<IF Head(t).username = username
           THEN [Head(t) EXCEPT !.password_hash = ph] ELSE Head(t)>>
             \o Rehashed(Tail(t), username, ph)

\* add_admin with INSERT OR REPLACE
add_admin_OrReplace(t, username, password) ==
    IF AddAdminRaises(t, username)
    THEN Rehashed(t, username, hash_password(password))
    ELSE Append(t, [username |-> username,
                    password_hash |-> hash_password(password)])

\* DB.add_admin: INSERT and commit, IntegrityError swallowed
add_admin(t, username, password) ==
    IF AddAdminRaises(t, username) THEN t
    ELSE Append(t, [username |-> username,
                    password_hash |-> hash_password(password)])

\* DB.verify_admin: the row of the username, if any, and its hash
verify_admin(t, username, password) ==
    LET rows == SelectSeq(t, LAMBDA r : r.username = username)
    IN  IF rows = <<>> THEN FALSE
        ELSE verify_hash(password, rows[1].password_hash)

\* the end of DB._create: the default account when the table has no row
_create(t) == IF Len(t) = 0 THEN add_admin(t, "admin", "admin123") ELSE t

(***************************************************************************)
(* Notifier (src/lost.py:250-284).  A Notifier is the two 'enabled'        *)
(* settings it reads, TWILIO_AVAILABLE and whether it holds a client.      *)
(***************************************************************************)
\* how far the SMTP conversation of send_email gets before something raises
SmtpOutcomes ==
    {"connect failed", "starttls failed", "login failed", "sendmail failed",
     "quit failed", "sent"}

\* what messages.create does
TwilioOutcomes == {"create failed", "created"}

Sent(ok, msg, raised, connections, handed) ==
    [ok |-> ok, msg |-> msg, raised |-> raised, connections |-> connections,
     handed |-> handed]

\* send_email without its try block
send_email_Unguarded(n, outcome) ==
    IF ~n.smtp_enabled THEN Sent(FALSE, "SMTP disabled", FALSE, 0, FALSE)
    ELSE IF outcome = "sent" THEN Sent(TRUE, "Email sent", FALSE, 1, TRUE)
    ELSE Sent(FALSE, outcome, TRUE, 1,
              outcome = "quit failed")

\* Notifier.send_email: the pair returned, whether an exception left the
\* call, the connections tried and whether sendmail took the message
send_email(n, outcome) ==
    IF ~n.smtp_enabled THEN Sent(FALSE, "SMTP disabled", FALSE, 0, FALSE)
    ELSE IF outcome = "sent" THEN Sent(TRUE, "Email sent", FALSE, 1, TRUE)
    ELSE Sent(FALSE, outcome, FALSE, 1,
              outcome = "quit failed")

\* Notifier.send_sms: msg.sid is "sid"
send_sms(n, outcome) ==
    IF ~n.twilio_available \/ ~n.twilio_enabled \/ ~n.twilio_client
    THEN Sent(FALSE, "Twilio not configured", FALSE, 0, FALSE)
    ELSE IF outcome = "created" THEN Sent(TRUE, "sid", FALSE, 1, TRUE)
    ELSE Sent(FALSE, outcome, FALSE, 1, FALSE)

\* Notifier.__init__ on the settings loaded: a client only when the library
\* is there, twilio is enabled and TwilioClient(...) did not raise
NewNotifier(available, smtp_enabled, twilio_enabled, client_made) ==
    [twilio_available |-> available,
     smtp_enabled |-> smtp_enabled,
     twilio_enabled |-> twilio_enabled,
     twilio_client |-> available /\ twilio_enabled /\ client_made]

(***************************************************************************)
(* State.                                                                  *)
(***************************************************************************)
VARIABLES
    store,         \* the items table
    vectorizer,    \* Matcher.vectorizer
    corpus_ids,    \* Matcher.corpus_ids
    corpus_texts,  \* Matcher.corpus_texts
    call,          \* the last call made and what it gave
    pc,            \* "idle", or "joining" between the two fetches of find_matches
    pending,       \* the locals of a find_matches between its two fetches
    form,          \* type_var and the entries of the Submit Item form
    tree,          \* the rows the item list shows, by id
    event,         \* the handler of App that ran last and what it showed
    pre,           \* a text and what preprocess made of it
    listing,       \* the last DB.get_items call and the rows it returned
    admin,         \* the admin table
    login,         \* the add_admin calls made and the last verify_admin
    notifier,      \* the settings Notifier reads and its twilio_client
    notice         \* the last send_email or send_sms and what it returned

vars ==
    <<store, vectorizer, corpus_ids, corpus_texts, call, pc, pending,
      form, tree, event, pre, listing, admin, login, notifier, notice>>

\* what the table and Matcher operations leave alone
aside == <<form, tree, event, pre>>

\* what only the listing, admin and Notifier operations touch
beside == <<listing, admin, login, notifier, notice>>

NoItem == Item(0, NoType, None, None, None)

NoCall ==
    [op |-> "none", status |-> "none", item |-> NoItem, topk |-> 0,
     fetches |-> 0, vectorized |-> FALSE, prior |-> NoVectorizer,
     before |-> <<>>, snapshot |-> <<>>, ranked |-> <<>>, results |-> <<>>]

NoPending ==
    [item |-> NoItem, topk |-> 0, prior |-> NoVectorizer, before |-> <<>>,
     snapshot |-> <<>>]

\* the form as create_widgets leaves it: type 'lost', empty entries
NoForm == Form("lost", <<>>, <<>>, <<>>, <<>>)

NoEvent ==
    [op |-> "none", status |-> "none", item |-> NoItem, was |-> <<>>,
     dialogs |-> <<>>, rows |-> <<>>]

NoPre == [text |-> <<>>, once |-> <<>>, twice |-> <<>>, applied |-> 0]

NoListing ==
    [op |-> "none", type |-> NoType, search |-> None, before |-> <<>>,
     rows |-> <<>>]

\* the add_admin calls made so far, the one of _create first
NoLogin ==
    [op |-> "none", username |-> "", password |-> "", result |-> FALSE,
     calls |-> <<<<"admin", "admin123">>>>, was |-> <<>>]

\* the Notifier of the default settings: both 'enabled' False
NoNotifier == NewNotifier(TRUE, FALSE, FALSE, TRUE)

NoNotice ==
    [op |-> "none", outcome |-> "", by |-> NoNotifier,
     result |-> Sent(FALSE, "", FALSE, 0, FALSE)]

\* a new database file and default settings, nothing listed or sent
Untouched ==
    /\ listing = NoListing
    /\ admin = _create(<<>>)
    /\ login = NoLogin
    /\ notifier = NoNotifier
    /\ notice = NoNotice

Init ==
    /\ store = <<>>
    /\ vectorizer = NoVectorizer
    /\ corpus_ids = <<>>
    /\ corpus_texts = <<>>
    /\ call = NoCall
    /\ pc = "idle"
    /\ pending = NoPending
    /\ form = NoForm
    /\ tree = <<>>
    /\ event = NoEvent
    /\ pre = NoPre
    /\ Untouched

\* DB.add_item(item) called by this process: the id is a fresh one or, for
\* a caller that repeats an id, one the table holds
AddItem ==
    /\ pc = "idle"
    /\ Len(store) < MaxItems
    /\ \E id \in 1..(Len(store) + 1), p \in ItemPool :
          LET item == Item(id, p[1], p[2], p[3], p[4])
          IN  /\ store' = add_item(store, item)
              /\ call' = [NoCall EXCEPT !.op = "add_item",
                             !.status = IF AddItemRaises(store, item)
                                        THEN "raised" ELSE "returned",
                             !.item = item,
                             !.before = store]
    /\ UNCHANGED <<vectorizer, corpus_ids, corpus_texts, pc, pending>>
    /\ UNCHANGED aside
    /\ UNCHANGED beside

\* the Matcher fields after build
SetMatcher(b) ==
    /\ vectorizer' = b.vectorizer
    /\ corpus_ids' = b.corpus_ids
    /\ corpus_texts' = b.corpus_texts

\* what a find_matches call is seen to have done
Observed(item, topk, prior, before, items, r) ==
    [op |-> "find_matches", status |-> r.status, item |-> item, topk |-> topk,
     fetches |-> r.fetches, vectorized |-> r.vectorized, prior |-> prior,
     before |-> before, snapshot |-> items, ranked |-> r.ranked,
     results |-> r.results]

\* Matcher.find_matches(item, topk) run to completion
FindMatchesCall(item, topk) ==
    /\ pc = "idle"
    /\ \E items \in {get_items(store, Opposite(item.type), None)} :
          \E r \in {find_matches(vectorizer, items, store, item, topk)} :
             /\ SetMatcher(r.matcher)
             /\ store' = StoreAfterJoin(store, r.results)
             /\ call' = Observed(item, topk, vectorizer, store, items, r)
    /\ UNCHANGED <<pc, pending>>
    /\ UNCHANGED aside
    /\ UNCHANGED beside

FindMatches ==
    \E item \in Queries \cup Range(store), topk \in TopKs : FindMatchesCall(item, topk)

Next == AddItem \/ FindMatches

Spec == Init /\ [][Next]_vars

(***************************************************************************)
(* The same Matcher next to another writer of items.db: find_matches runs  *)
(* in two steps, lines 190-198 (build, with its fetch, and the ranking)    *)
(* and lines 200-207 (the second fetch and the join), and the other writer *)
(* may insert rows between them.                                           *)
(***************************************************************************)
BeginFindCall(item, topk) ==
    /\ pc = "idle"
    /\ \E items \in {get_items(store, Opposite(item.type), None)} :
          \E b \in {build(vectorizer, items)} :
             /\ SetMatcher(b)
             /\ IF b.raised \/ ~b.vectorizer.fitted
                THEN /\ call' = Observed(item, topk, vectorizer, store, items,
                                         find_matches(vectorizer, items, store,
                                                      item, topk))
                     /\ UNCHANGED <<pc, pending>>
                ELSE /\ call' = [NoCall EXCEPT !.op = "find_matches",
                                    !.status = "running"]
                     /\ pc' = "joining"
                     /\ pending' = [item |-> item, topk |-> topk,
                                    prior |-> vectorizer, before |-> store,
                                    snapshot |-> items]
    /\ UNCHANGED store
    /\ UNCHANGED aside
    /\ UNCHANGED beside

BeginFind ==
    \E item \in Queries \cup Range(store), topk \in TopKs : BeginFindCall(item, topk)

\* DB.add_item by the other writer while find_matches is between its fetches
Insert ==
    /\ pc = "joining"
    /\ Len(store) < MaxItems
    /\ \E id \in 1..(Len(store) + 1), p \in ItemPool :
          store' = add_item(store, Item(id, p[1], p[2], p[3], p[4]))
    /\ UNCHANGED <<vectorizer, corpus_ids, corpus_texts, call, pc, pending>>
    /\ UNCHANGED aside
    /\ UNCHANGED beside

EndFind ==
    /\ pc = "joining"
    /\ \E r \in {find_matches(pending.prior, pending.snapshot, store,
                               pending.item, pending.topk)} :
          /\ store' = StoreAfterJoin(store, r.results)
          /\ call' = Observed(pending.item, pending.topk, pending.prior,
                              pending.before, pending.snapshot, r)
    /\ pc' = "idle"
    /\ pending' = NoPending
    /\ UNCHANGED <<vectorizer, corpus_ids, corpus_texts>>
    /\ UNCHANGED aside
    /\ UNCHANGED beside

NextConc == AddItem \/ BeginFind \/ Insert \/ EndFind

SpecConc == Init /\ [][NextConc]_vars

(***************************************************************************)
(* App (src/lost.py:343-583; the tk variant, lines 693-932, is the same):  *)
(* the Submit Item form, the item list and the Match Dashboard.  A handler *)
(* runs to completion on the Tk thread; an exception it lets through ends  *)
(* it where it was raised.                                                 *)
(***************************************************************************)
\* str(uuid.uuid4()): an id no row holds
NewId(s) == Len(s) + 1

\* the validation of submit_item that wants a name and a description
Rejected_EitherEmpty(f) == Strip(f.name) = <<>> \/ Strip(f.description) = <<>>

\* "if not name and not desc" (line 441)
Rejected(f) == Strip(f.name) = <<>> /\ Strip(f.description) = <<>>

\* the record submit_item builds from the form (lines 434-453)
Entered(s, f) ==
    [Item(NewId(s), f.type, Strip(f.name), Strip(f.description), Strip(f.place))
        EXCEPT !.contact = Strip(f.contact)]

\* what a submit_item that got past the validation did: the table, the
\* find_matches call with the table and rows it saw, the dialogs shown, and
\* whether lines 459-460 were reached
Submitted(item, s, matched_on, snapshot, r, stored) ==
    [status |-> r.status, store |-> s, item |-> item, matched_on |-> matched_on,
     snapshot |-> snapshot, find |-> r,
     dialogs |-> (IF stored THEN <<"Saved">> ELSE <<>>)
                    \o (IF r.status = "returned" /\ r.results # <<>>
                        THEN <<"Possible Matches">> ELSE <<>>),
     done |-> r.status = "returned"]

\* submit_item that looks for matches first and saves the record afterwards
submit_item_MatchFirst(s, v, f) ==
    LET item == Entered(s, f)
        snapshot == get_items(s, Opposite(item.type), None)
    IN  TheOnly({ Submitted(item,
                            IF r.status = "returned" THEN add_item(s, item) ELSE s,
                            s, snapshot, r, r.status = "returned") :
                    r \in {find_matches(v, snapshot, s, item, 5)} })

\* App.submit_item past the validation, on table s with Matcher.vectorizer v
\* and form f: add_item, the 'Saved' box, find_matches(item, topk=5), the
\* popup when the list is not empty
submit_item(s, v, f) ==
    LET item == Entered(s, f)
        s1 == add_item(s, item)
        snapshot == get_items(s1, Opposite(item.type), None)
    IN  TheOnly({ Submitted(item, StoreAfterJoin(s1, r.results), s1, snapshot,
                            r, TRUE) :
                    r \in {find_matches(v, snapshot, s1, item, 5)} })

\* common_clear_form: the four entries emptied, type_var left as it is
ClearForm(f) == Form(f.type, <<>>, <<>>, <<>>, <<>>)

\* refresh_list with an empty search box: every row of the table
Listed(s) == IdsOf(get_items(s, NoType, <<>>))

\* the user fills in the form
Fill ==
    /\ pc = "idle"
    /\ \E f \in FormInputs : form' = f
    /\ call' = NoCall
    /\ event' = NoEvent
    /\ UNCHANGED <<store, vectorizer, corpus_ids, corpus_texts, pc, pending,
                   tree, pre>>
    /\ UNCHANGED beside

\* the Submit Item button
SubmitItem ==
    /\ pc = "idle"
    /\ Len(store) < MaxItems
    /\ IF Rejected(form)
       THEN /\ event' = [NoEvent EXCEPT !.op = "submit_item",
                            !.status = "rejected", !.was = store,
                            !.dialogs = <<"Missing">>]
            /\ call' = NoCall
            /\ UNCHANGED <<store, vectorizer, corpus_ids, corpus_texts,
                           form, tree>>
       ELSE \E r \in {submit_item(store, vectorizer, form)} :
                /\ store' = r.store
                /\ SetMatcher(r.find.matcher)
                /\ call' = Observed(r.item, 5, vectorizer, r.matched_on,
                                    r.snapshot, r.find)
                /\ event' = [NoEvent EXCEPT !.op = "submit_item",
                                !.status = r.status, !.item = r.item,
                                !.was = store, !.dialogs = r.dialogs]
                /\ form' = IF r.done THEN ClearForm(form) ELSE form
                /\ tree' = IF r.done THEN Listed(r.store) ELSE tree
    /\ UNCHANGED <<pc, pending, pre>>
    /\ UNCHANGED beside

\* the Matcher fields as a build leaves them
MatcherNow ==
    [corpus_ids |-> corpus_ids, corpus_texts |-> corpus_texts,
     raised |-> FALSE, vectorizer |-> vectorizer]

\* the container populate_matches completes for a row (lines 510-523)
Container(it, results) ==
    [id |-> it.id,
     label |-> IF results # <<>> THEN "Possible matches:"
               ELSE "No matches found yet",
     matches |-> IdsOf(results)]

RECURSIVE PopulateFrom(_, _, _, _, _)
\* the loop of populate_matches (lines 494-523) over the rows left, m being
\* the Matcher fields, rows the containers completed so far and seen the
\* last find_matches call
PopulateFrom(s, m, items, rows, seen) ==
    IF items = <<>>
    THEN [status |-> "returned", rows |-> rows, matcher |-> m, seen |-> seen]
    ELSE LET it == Head(items)
             snapshot == get_items(s, Opposite(it.type), None)
         IN  TheOnly({
                 IF r.status = "raised"
                 THEN [status |-> "raised", rows |-> rows, matcher |-> r.matcher,
                       seen |-> Observed(it, 3, m.vectorizer, s, snapshot, r)]
                 ELSE PopulateFrom(s, r.matcher, Tail(items),
                         Append(rows, Container(it, r.results)),
                         Observed(it, 3, m.vectorizer, s, snapshot, r)) :
                 r \in {find_matches(m.vectorizer, snapshot, s, it, 3)} })

\* App.populate_matches for the view type chosen
populate_matches(s, m, vtype) ==
    PopulateFrom(s, m, get_items(s, vtype, None), <<>>, NoCall)

\* the Refresh Matches button of the dashboard, view_type being one of its
\* two radio buttons (lines 475-476)
PopulateMatches ==
    /\ pc = "idle"
    /\ \E vtype \in Types :
          \E r \in {populate_matches(store, MatcherNow, vtype)} :
              /\ SetMatcher(r.matcher)
              /\ call' = r.seen
              /\ event' = [NoEvent EXCEPT !.op = "populate_matches",
                              !.status = r.status, !.was = store,
                              !.rows = r.rows]
    /\ UNCHANGED <<store, pc, pending, form, tree, pre>>
    /\ UNCHANGED beside

NextApp == Fill \/ SubmitItem \/ PopulateMatches

SpecApp == Init /\ [][NextApp]_vars

(***************************************************************************)
(* preprocess on its own (src/lost.py:163-170): a text is drawn and        *)
(* preprocess is applied to it, then to what it returned.                  *)
(***************************************************************************)
\* the words of the texts: plurals, a stopword, a plural of a stopword,
\* digits, capitals
PreWords ==
    { <<"r","e","d">>, <<"R","e","d">>, <<"b","a","g">>, <<"b","a","g","s">>,
      <<"k","e","y","s">>, <<"o","w","n">>, <<"o","w","n","s">>,
      <<"t","h","e">>, <<"4","2">>, <<"x">> }

\* the texts of one or two words
PreTexts ==
    PreWords \cup {a \o <<Space>> \o b : a \in PreWords, b \in PreWords}

InitPre ==
    /\ store = <<>>
    /\ vectorizer = NoVectorizer
    /\ corpus_ids = <<>>
    /\ corpus_texts = <<>>
    /\ call = NoCall
    /\ pc = "idle"
    /\ pending = NoPending
    /\ form = NoForm
    /\ tree = <<>>
    /\ event = NoEvent
    /\ \E t \in PreTexts : pre = [NoPre EXCEPT !.text = t]
    /\ Untouched

\* preprocess applied to the text, then to its own result
Normalize ==
    /\ pre.applied < 2
    /\ pre' = IF pre.applied = 0
              THEN [pre EXCEPT !.once = preprocess(pre.text), !.applied = 1]
              ELSE [pre EXCEPT !.twice = preprocess(pre.once), !.applied = 2]
    /\ UNCHANGED <<store, vectorizer, corpus_ids, corpus_texts, call, pc,
                   pending, form, tree, event>>
    /\ UNCHANGED beside

NextPre == Normalize

SpecPre == InitPre /\ [][NextPre]_vars

(***************************************************************************)
(* Listing the table (src/lost.py:145-157, 462-467): get_items called      *)
(* with both filters, and the search box of the item list.                 *)
(***************************************************************************)
\* the type arguments: '' stands for both falsy values, None and ''
ListTypes == Types \cup {NoType}

\* the search arguments: none, empty, a word in another case than stored,
\* part of a stored word, a LIKE wildcard, a letter no record has
Searches ==
    {None, <<>>, <<"r","e","d">>, <<"B","a","g">>, <<"_">>, <<"z">>}

\* what the user types in the search box
SearchBoxes == {<<>>, <<Space>>, <<"r","e","d",Space>>, <<"_">>}

Listing(op, type, search, s) ==
    [op |-> op, type |-> type, search |-> search, before |-> s,
     rows |-> get_items(s, type, search)]

\* DB.get_items(type, search)
GetItems ==
    /\ pc = "idle"
    /\ \E type \in ListTypes, search \in Searches :
          listing' = Listing("get_items", type, search, store)
    /\ UNCHANGED <<store, vectorizer, corpus_ids, corpus_texts, call, pc,
                   pending, admin, login, notifier, notice>>
    /\ UNCHANGED aside

\* App.refresh_list: the tree emptied and filled with the rows get_items
\* returns for the stripped text of the search box
RefreshList ==
    /\ pc = "idle"
    /\ \E box \in SearchBoxes :
          /\ listing' = Listing("refresh_list", NoType, Strip(box), store)
          /\ tree' = IdsOf(get_items(store, NoType, Strip(box)))
    /\ UNCHANGED <<store, vectorizer, corpus_ids, corpus_texts, call, pc,
                   pending, admin, login, notifier, notice>>
    /\ UNCHANGED <<form, event, pre>>

NextDB == AddItem \/ GetItems \/ RefreshList

SpecDB == Init /\ [][NextDB]_vars

(***************************************************************************)
(* The admin accounts (src/lost.py:103-136, 599-606).                      *)
(***************************************************************************)
\* what the login dialog is tried with: also a name nobody registered and
\* an empty password
LoginNames == AdminNames \cup {"carol"}
LoginPasswords == Passwords \cup {""}

\* DB.add_admin(username, password)
AddAdmin ==
    /\ Len(login.calls) <= MaxAdminCalls
    /\ \E u \in AdminNames, p \in Passwords :
          /\ admin' = add_admin(admin, u, p)
          /\ login' = [op |-> "add_admin", username |-> u, password |-> p,
                       result |-> FALSE,
                       calls |-> Append(login.calls, <<u, p>>),
                       was |-> admin]
    /\ UNCHANGED <<store, vectorizer, corpus_ids, corpus_texts, call, pc,
                   pending, listing, notifier, notice>>
    /\ UNCHANGED aside

\* DB.verify_admin(u, p), as LoginDialog.try_login calls it
VerifyAdmin ==
    /\ \E u \in LoginNames, p \in LoginPasswords :
          login' = [login EXCEPT !.op = "verify_admin", !.username = u,
                       !.password = p,
                       !.result = verify_admin(admin, u, p),
                       !.was = admin]
    /\ UNCHANGED <<store, vectorizer, corpus_ids, corpus_texts, call, pc,
                   pending, listing, admin, notifier, notice>>
    /\ UNCHANGED aside

\* the program started again on the same database file: DB._create
Restart ==
    /\ admin' = _create(admin)
    /\ login' = [login EXCEPT !.op = "_create", !.username = "",
                     !.password = "", !.result = FALSE,
                     !.calls = IF Len(admin) = 0
                               THEN Append(login.calls, <<"admin", "admin123">>)
                               ELSE login.calls,
                     !.was = admin]
    /\ UNCHANGED <<store, vectorizer, corpus_ids, corpus_texts, call, pc,
                   pending, listing, notifier, notice>>
    /\ UNCHANGED aside

NextAdmin == AddAdmin \/ VerifyAdmin \/ Restart

SpecAdmin == Init /\ [][NextAdmin]_vars

(***************************************************************************)
(* Notifications (src/lost.py:250-284, 671-688).                           *)
(***************************************************************************)
\* the program started with or without the twilio library and a settings
\* file, TwilioClient(...) raising or not
InitNotify ==
    /\ store = <<>>
    /\ vectorizer = NoVectorizer
    /\ corpus_ids = <<>>
    /\ corpus_texts = <<>>
    /\ call = NoCall
    /\ pc = "idle"
    /\ pending = NoPending
    /\ form = NoForm
    /\ tree = <<>>
    /\ event = NoEvent
    /\ pre = NoPre
    /\ listing = NoListing
    /\ admin = _create(<<>>)
    /\ login = NoLogin
    /\ \E available, smtp_enabled, twilio_enabled, client_made \in BOOLEAN :
          notifier = NewNotifier(available, smtp_enabled, twilio_enabled,
                                 client_made)
    /\ notice = NoNotice

\* SettingsDialog.save: the two 'enabled' boxes written to the settings the
\* Notifier reads; the Notifier and its client stay the ones made at start
SaveSettings ==
    /\ \E smtp_enabled, twilio_enabled \in BOOLEAN :
          notifier' = [notifier EXCEPT !.smtp_enabled = smtp_enabled,
                                       !.twilio_enabled = twilio_enabled]
    /\ UNCHANGED <<store, vectorizer, corpus_ids, corpus_texts, call, pc,
                   pending, listing, admin, login, notice>>
    /\ UNCHANGED aside

\* Notifier.send_email(to_email, subject, body)
SendEmail ==
    /\ \E outcome \in SmtpOutcomes :
          notice' = [op |-> "send_email", outcome |-> outcome,
                     by |-> notifier,
                     result |-> send_email(notifier, outcome)]
    /\ UNCHANGED <<store, vectorizer, corpus_ids, corpus_texts, call, pc,
                   pending, listing, admin, login, notifier>>
    /\ UNCHANGED aside

\* Notifier.send_sms(to_number, body)
SendSms ==
    /\ \E outcome \in TwilioOutcomes :
          notice' = [op |-> "send_sms", outcome |-> outcome,
                     by |-> notifier,
                     result |-> send_sms(notifier, outcome)]
    /\ UNCHANGED <<store, vectorizer, corpus_ids, corpus_texts, call, pc,
                   pending, listing, admin, login, notifier>>
    /\ UNCHANGED aside

NextNotify == SaveSettings \/ SendEmail \/ SendSms

SpecNotify == InitNotify /\ [][NextNotify]_vars

(***************************************************************************)
(* Properties.                                                             *)
(***************************************************************************)
Found == call.op = "find_matches" /\ call.status # "running"

\* the rows of a table that have the given type, by position
RowsOfType(s, type) == {i \in 1..Len(s) : s[i].type = type}

\* the number of rows of the type opposite to the query's when the call began
CorpusSize == Cardinality(RowsOfType(call.before, Opposite(call.item.type)))

\* a table row as a result carries it: the row without the '_score' key
Row(r) == [k \in DOMAIN r \ {"_score"} |-> r[k]]

\* C1: whenever the corpus of the opposite type is not empty, find_matches
\* returns a list, whatever the texts of the query and of the corpus are.
C1_NeverFailsOnText == (Found /\ CorpusSize > 0) => call.status = "returned"

\* C2: when the table holds no row of the opposite type, find_matches returns
\* the empty list, without raising and without vectorizing the query, and
\* leaves the vectorizer None.
C2_EmptyCorpus ==
    (Found /\ CorpusSize = 0) =>
        /\ call.status = "returned"
        /\ call.results = <<>>
        /\ ~call.vectorized
        /\ vectorizer = NoVectorizer

\* C2 witness: a call on a table that has rows, none of the opposite type,
\* made when the Matcher still held the vectorizer of an earlier call.
C2_Witness ==
    /\ Found
    /\ CorpusSize = 0
    /\ Len(call.before) > 0
    /\ call.prior.fitted
    /\ call.status = "returned"

\* C3: a record whose type is neither 'lost' nor 'found' is rejected with an
\* error before any fetch or normalization, and is matched against nothing.
C3_InvalidTypeRejected ==
    (Found /\ call.item.type \notin Types) =>
        /\ call.status = "raised"
        /\ call.fetches = 0
        /\ ~call.vectorized
        /\ call.results = <<>>

\* C4: the corpus is exactly the rows of the opposite type the table holds,
\* in table order; every result has the opposite type and none is the query
\* record.
C4_OppositeCorpus ==
    (Found /\ call.item.type \in Types) =>
        /\ corpus_ids = IdsOf(SelectSeq(call.before,
                            LAMBDA it : it.type # call.item.type /\ it.type \in Types))
        /\ \A i \in 1..Len(call.before) :
              call.before[i].type = call.item.type =>
                 call.before[i].id \notin Range(corpus_ids)
        /\ \A i \in 1..Len(call.results) :
              /\ call.results[i].type = Opposite(call.item.type)
              /\ call.results[i].type # call.item.type
              /\ Row(call.results[i]) # call.item

\* C4 witness: the query is a stored row, the table holds rows of both
\* types, and the call returned matches.
C4_Witness ==
    /\ Found
    /\ call.item \in Range(call.before)
    /\ RowsOfType(call.before, "lost") # {}
    /\ RowsOfType(call.before, "found") # {}
    /\ Len(call.results) > 0

\* the position of an id in the corpus
Pos(ids, id) == CHOOSE i \in 1..Len(ids) : ids[i] = id

\* the corpus with the score of each record, in corpus order, from the
\* fields the Matcher holds after the call
Scored == Zip(corpus_ids, Sims(vectorizer, corpus_texts, call.item))

ResultIds == {call.results[i].id : i \in 1..Len(call.results)}

\* C5: for every topk >= 0 and every corpus of N rows of the opposite type,
\* find_matches returns exactly min(topk, N) results.
C5_ExactlyMinTopkN ==
    (Found /\ call.item.type \in Types) =>
        /\ call.status = "returned"
        /\ Len(call.results) = Min(call.topk, CorpusSize)

\* C6: the result is the length-topk prefix of the corpus sorted by
\* descending score: scores do not increase along the result and no record
\* left out has a score greater than one that is in.
C6_SortedPrefix ==
    (Found /\ call.status = "returned") =>
        /\ Len(call.results) = Min(call.topk, Len(Scored))
        /\ \A i, j \in 1..Len(call.results) :
              i < j => call.results[i]._score >= call.results[j]._score
        /\ \A i \in 1..Len(call.results) :
              call.results[i]._score = Scored[Pos(corpus_ids, call.results[i].id)].score
        /\ \A k \in 1..Len(Scored) :
              Scored[k].id \notin ResultIds =>
                 \A i \in 1..Len(call.results) :
                    call.results[i]._score >= Scored[k].score

\* C6 witness: two results with different scores and a record left out whose
\* score is smaller than both.
C6_Witness ==
    /\ Found
    /\ Len(call.results) = 2
    /\ call.results[1]._score > call.results[2]._score
    /\ \E k \in 1..Len(Scored) :
          /\ Scored[k].id \notin ResultIds
          /\ Scored[k].score < call.results[2]._score

\* C7: records with equal scores appear in the result in corpus order.
C7_StableTies ==
    Found =>
        \A i, j \in 1..Len(call.results) :
           (i < j /\ call.results[i]._score = call.results[j]._score) =>
              Pos(corpus_ids, call.results[i].id) < Pos(corpus_ids, call.results[j].id)

\* C7 witness: two results tie on a score above zero and a third record
\* scores differently.
C7_Witness ==
    /\ Found
    /\ Len(call.results) = 3
    /\ \E i, j, k \in 1..3 :
          /\ i < j
          /\ call.results[i]._score = call.results[j]._score
          /\ call.results[i]._score > 0
          /\ call.results[k]._score # call.results[i]._score

\* what a newly constructed Matcher returns for the same table, record and topk
Fresh ==
    find_matches(NoVectorizer,
                 get_items(call.before, Opposite(call.item.type), None),
                 call.before, call.item, call.topk)

\* C8: the outcome of find_matches depends on the table, the record and topk
\* only, not on the calls the Matcher served before: it is the outcome of a
\* Matcher that served none.
C8_HistoryIndependent ==
    Found =>
        \A fresh \in {Fresh} :
           /\ call.status = fresh.status
           /\ call.results = fresh.results

\* C8 witness: matches returned by a Matcher that entered the call holding
\* the vectorizer of another corpus.
C8_Witness ==
    /\ Found
    /\ call.prior.fitted
    /\ call.prior # vectorizer
    /\ Len(call.results) > 0
    /\ call.results[1]._score > 0

\* C9: with rows inserted between the two fetches, the result is the one
\* computed from the rows of the first fetch alone, and every one of the
\* top-k ranked ids is in it.
C9_SnapshotResult ==
    (Found /\ call.vectorized) =>
        /\ call.results =
              find_matches(NoVectorizer, call.snapshot, call.snapshot,
                           call.item, call.topk).results
        /\ Len(call.results) = Min(call.topk, Len(call.snapshot))
        /\ \A i \in 1..Len(call.results) : call.results[i].id = call.ranked[i].id

\* C9 witness: matches returned although the table gained a row of the
\* corpus type between the two fetches.
C9_Witness ==
    /\ Found
    /\ Len(call.results) > 0
    /\ Cardinality(RowsOfType(store, Opposite(call.item.type))) > Len(call.snapshot)

\* C10: find_matches leaves the table as it was, and no row carries a
\* '_score'.
C10_StoreUnchanged ==
    Found =>
        /\ store = call.before
        /\ \A i \in 1..Len(store) : "_score" \notin DOMAIN store[i]

\* C10 witness: a call that attached a score to a result.
C10_Witness ==
    /\ Found
    /\ Len(call.results) > 0
    /\ call.results[1]._score > 0
    /\ Row(call.results[1]) \in Range(store)

\* C11: every '_score' of a result lies in the closed interval [0.0, 1.0].
C11_ScoreInUnitInterval ==
    Found =>
        \A i \in 1..Len(call.results) :
           /\ call.results[i]._score >= 0
           /\ call.results[i]._score <= SCALE


\* the tokens of the query the vectorizer sees
QueryTokens == Analyzed(Preprocessed(ItemText(call.item)))

\* no token of the query is in the fitted vocabulary
QueryOutOfVocabulary == \A t \in Range(QueryTokens) : t \notin Range(vectorizer.terms)

\* the document of the corpus record with the given id
DocOf(id) == corpus_texts[Pos(corpus_ids, id)]

C12_WitnessEmptyDoc ==
    /\ Found
    /\ \E i, j \in 1..Len(call.results) :
          /\ Analyzed(DocOf(call.results[i].id)) = <<>>
          /\ call.results[i]._score = 0
          /\ call.results[j]._score > 0


\* the query has the name, description and place of the row
SameText(it, q) ==
    it.name = q.name /\ it.description = q.description /\ it.place = q.place

\* the score the call ranked the corpus record id with
RankedScore(id) ==
    LET k == CHOOSE k \in 1..Len(call.ranked) : call.ranked[k].id = id
    IN  call.ranked[k].score

\* C13: a query whose name, description and place equal those of a corpus
\* record gets similarity 1.0, within one rounding step, with that record, and
\* no record a greater one beyond that step; if the record's normalized
\* document is empty the similarity is 0.0 instead.
C13_SelfSimilarity ==
    Found =>
        \A k \in 1..Len(call.snapshot) :
           SameText(call.snapshot[k], call.item) =>
              /\ call.status = "returned"
              /\ call.vectorized
              /\ LET self == RankedScore(call.snapshot[k].id)
                 IN  IF Analyzed(Preprocessed(ItemText(call.snapshot[k]))) = <<>>
                     THEN self = 0
                     ELSE /\ self >= SCALE - 1
                          /\ self <= SCALE + 1
                          /\ \A j \in 1..Len(call.ranked) :
                                call.ranked[j].score <= self + 1


\* the record with another date, contact and image
Variant(it) ==
    [it EXCEPT !.date = "1999-12-31", !.contact = "x", !.image_path = Bags]

RECURSIVE VariantAll(_)
VariantAll(s) ==
    IF s = <<>> THEN <<>> ELSE <<Variant(Head(s))>> \o VariantAll(Tail(s))

RECURSIVE IdScores(_)
\* the ids and scores of a result, in order
IdScores(results) ==
    IF results = <<>> THEN <<>>
    ELSE <<[id |-> Head(results).id, score |-> Head(results)._score]>>
             \o IdScores(Tail(results))

\* the call repeated with a query that differs in id, date, contact and image
OtherQuery ==
    find_matches(call.prior,
                 get_items(call.before, Opposite(call.item.type), None),
                 call.before, [Variant(call.item) EXCEPT !.id = 99], call.topk)

\* the call repeated on the table with date, contact and image of every row
\* changed
OtherStore ==
    LET s == VariantAll(call.before)
    IN  find_matches(call.prior, get_items(s, Opposite(call.item.type), None),
                     s, call.item, call.topk)

\* C14: queries that differ only in id, date, contact or image_path get the
\* same ordered ids and scores on the same table, and changing date, contact
\* or image_path of the stored rows changes no score and no ranking.
C14_OnlyTypeAndTextMatter ==
    Found =>
        \A other \in {OtherQuery, OtherStore} :
           /\ other.status = call.status
           /\ other.ranked = call.ranked
           /\ IdScores(other.results) = IdScores(call.results)

\* C14 witness: a call that ranked three records, the first above the last.
C14_Witness ==
    /\ Found
    /\ Len(call.results) = 3
    /\ call.results[1]._score > call.results[3]._score
    /\ call.results[3]._score > 0


\* no value occurs twice in the sequence
NoDuplicates(ids) == \A i, j \in 1..Len(ids) : i # j => ids[i] # ids[j]

\* C15: no two rows of the table share an id: add_item with an id the table
\* holds raises and leaves the table as it was, any other add_item appends
\* the row; so no id occurs twice in the corpus or in a result.
C15_UniqueIds ==
    /\ NoDuplicates(IdsOf(store))
    /\ NoDuplicates(corpus_ids)
    /\ NoDuplicates(IdsOf(call.results))
    /\ call.op = "add_item" =>
          IF call.item.id \in Range(IdsOf(call.before))
          THEN call.status = "raised" /\ store = call.before
          ELSE call.status = "returned" /\ store = Append(call.before, call.item)

\* C15 witness: an add_item that raised on a table of two rows, for a row
\* that differs from the stored one with its id.
C15_Witness ==
    /\ call.op = "add_item"
    /\ call.status = "raised"
    /\ Len(store) = 2
    /\ call.item \notin Range(store)


\* C16: in every reachable state every row of the table has type 'lost' or
\* 'found'.
C16_TypeIsLostOrFound == \A i \in 1..Len(store) : store[i].type \in Types

\* C16 witness: submit_item stored a row of each type.
C16_Witness ==
    /\ event.op = "submit_item"
    /\ event.status # "rejected"
    /\ RowsOfType(store, "lost") # {}
    /\ RowsOfType(store, "found") # {}


\* C17: preprocess is idempotent on its own output: applied to the text it
\* returned, it returns that same text.
C17_PreprocessIdempotent == pre.applied = 2 => pre.twice = pre.once


\* submit_item got past its validation
Accepted == event.op = "submit_item" /\ event.status # "rejected"

\* C18: in submit_item the record is written to the table before matching
\* starts: once the validation passed the record is in the table, whether
\* find_matches returns matches, returns none or raises; and when it raises
\* the form is not cleared and the item list is not refreshed.
C18_StoredBeforeMatching ==
    Accepted =>
        /\ event.item \in Range(store)
        /\ call.op = "find_matches"
        /\ call.item = event.item
        /\ event.item \in Range(call.before)
        /\ event.status = call.status
        /\ event.status = "raised" =>
              /\ Strip(form.name) = event.item.name
              /\ Strip(form.description) = event.item.description
              /\ Strip(form.name) # <<>> \/ Strip(form.description) # <<>>
              /\ event.item.id \notin Range(tree)

\* C18 witness: find_matches raised in a submit_item whose record is stored.
C18_Witness ==
    /\ Accepted
    /\ event.status = "raised"
    /\ event.item \in Range(store)
    /\ Len(store) >= 2

\* C19: with name and description both empty after stripping, submit_item
\* adds no record, runs no matching and generates no id; with one of them
\* non-empty it adds exactly one record, whatever place and contact hold.
C19_Validation ==
    event.op = "submit_item" =>
        IF event.status = "rejected"
        THEN /\ Strip(form.name) = <<>>
             /\ Strip(form.description) = <<>>
             /\ store = event.was
             /\ call = NoCall
             /\ event.item = NoItem
        ELSE /\ event.item.name # <<>> \/ event.item.description # <<>>
             /\ store = Append(event.was, event.item)
             /\ event.item.id \notin Range(IdsOf(event.was))

\* C19 witness: a submit rejected although place and contact are filled in,
\* on a table that already has a row.
C19_Witness ==
    /\ event.op = "submit_item"
    /\ event.status = "rejected"
    /\ Strip(form.place) # <<>>
    /\ Strip(form.contact) # <<>>
    /\ Len(store) > 0

\* the stored row with the given id
RowOf(id) == CHOOSE it \in Range(store) : it.id = id

\* C20: find_matches applies no score threshold: with a non-empty corpus of
\* the opposite type, a fitted index and topk >= 1 the result is not empty,
\* even if every score is 0.0; so the dashboard shows 'No matches found yet'
\* for a record, and submit_item skips the matches popup, only when the table
\* holds no row of the opposite type.
C20_NoThreshold ==
    /\ (call.op = "find_matches" /\ call.vectorized /\ call.topk >= 1
            /\ call.snapshot # <<>>) =>
          call.results # <<>>
    /\ \A i \in 1..Len(event.rows) :
          event.rows[i].label = "No matches found yet" =>
             RowsOfType(store, Opposite(RowOf(event.rows[i].id).type)) = {}
    /\ (Accepted /\ "Possible Matches" \notin Range(event.dialogs)) =>
          RowsOfType(store, Opposite(event.item.type)) = {}


\* the search text occurs in the text as a substring, letter case apart
Occurs(text, search) ==
    /\ text # None
    /\ \E i \in 0..(Len(text) - Len(search)) :
          Lower(SubSeq(text, i + 1, i + Len(search))) = Lower(search)

\* a filter that is None or '' is not supplied
SuppliedType(type) == type # NoType

SuppliedSearch(search) == search # None /\ search # <<>>

\* the record satisfies every supplied filter
Satisfies(it, type, search) ==
    /\ SuppliedType(type) => it.type = type
    /\ SuppliedSearch(search) => \/ Occurs(it.name, search)
                           \/ Occurs(it.description, search)
                           \/ Occurs(it.place, search)

\* C21: get_items(type, search) returns exactly the stored records that
\* satisfy every supplied filter, type equal to the given type and search
\* occurring as a substring of name, description or place (read in the
\* code's favour: letter case apart), a None or '' filter being not supplied
C21_ExactlyTheFiltered ==
    listing.op # "none" =>
        listing.rows = SelectSeq(listing.before,
                           LAMBDA it : Satisfies(it, listing.type, listing.search))

\* C21, the part without a search text: get_items(search='') returns all
\* records and get_items(type=t) all records of type t and no others
C21_TypeFilterOnly ==
    (listing.op # "none" /\ ~SuppliedSearch(listing.search)) =>
        listing.rows = SelectSeq(listing.before,
                           LAMBDA it : SuppliedType(listing.type) => it.type = listing.type)

C21_TypeFilterOnly_Witness ==
    /\ listing.op = "get_items"
    /\ listing.type = "found"
    /\ listing.search = <<>>
    /\ Len(listing.rows) = 2
    /\ Len(listing.before) = 3


\* an add_admin call was made for the name
Registered(u) == \E i \in 1..Len(login.calls) : login.calls[i][1] = u

\* the password of the first add_admin call made for the name
FirstPassword(u) ==
    LET first == CHOOSE i \in 1..Len(login.calls) :
                     /\ login.calls[i][1] = u
                     /\ \A j \in 1..(i - 1) : login.calls[j][1] # u
    IN  login.calls[first][2]

\* what the claim says verify_admin(u, p) is
ShouldVerify(u, p) ==
    Registered(u) /\ hash_password(p) = hash_password(FirstPassword(u))

\* C22: after any sequence of add_admin calls verify_admin(u, p) is true
\* exactly when u was registered and p hashes to the password of the first
\* add_admin call for u; an add_admin for an existing username leaves the
\* table as it was, and _create adds the default admin/admin123 account only
\* to an empty table
C22_FirstPasswordVerifies ==
    /\ login.op = "verify_admin" =>
          login.result = ShouldVerify(login.username, login.password)
    /\ \A u \in LoginNames, p \in LoginPasswords :
          verify_admin(admin, u, p) = ShouldVerify(u, p)
    /\ (login.op = "add_admin" /\ AddAdminRaises(login.was, login.username)) =>
          admin = login.was
    /\ (login.op = "_create" /\ Len(login.was) # 0) => admin = login.was
    /\ login.calls[1] = <<"admin", "admin123">>
    /\ Cardinality({i \in 1..Len(admin) : admin[i].username = "admin"}) = 1

\* bob registered twice with different passwords, then logged in with the
\* first one
C22_Witness ==
    /\ login.op = "verify_admin"
    /\ login.username = "bob"
    /\ login.result
    /\ \E i, j \in 1..Len(login.calls) :
          /\ i < j
          /\ login.calls[i][1] = "bob"
          /\ login.calls[j][1] = "bob"
          /\ login.calls[i][2] # login.calls[j][2]
          /\ login.calls[i][2] = login.password

\* the program started again on a table that holds accounts
C22_WitnessRestart ==
    /\ login.op = "_create"
    /\ Len(admin) = 2


\* send_sms finds Twilio unavailable, disabled or without a client
TwilioNotConfigured(n) ==
    ~n.twilio_available \/ ~n.twilio_enabled \/ ~n.twilio_client

\* C23: send_email and send_sms report failure as a value and never raise:
\* with SMTP disabled send_email returns (False, 'SMTP disabled') and opens
\* no connection, with Twilio unavailable, disabled or without a client
\* send_sms returns (False, 'Twilio not configured') and sends nothing, a
\* transport error gives (False, message), and the first element is True
\* only after the message was handed to the transport
C23_FailureIsAValue ==
    LET r == notice.result
    IN  notice.op # "none" =>
          /\ ~r.raised
          /\ (notice.op = "send_email" /\ ~notice.by.smtp_enabled) =>
                /\ ~r.ok
                /\ r.msg = "SMTP disabled"
                /\ r.connections = 0
          /\ (notice.op = "send_sms" /\ TwilioNotConfigured(notice.by)) =>
                /\ ~r.ok
                /\ r.msg = "Twilio not configured"
                /\ r.connections = 0
                /\ ~r.handed
          /\ (r.connections > 0 /\ notice.outcome \notin {"sent", "created"}) =>
                /\ ~r.ok
                /\ r.msg = notice.outcome
          /\ r.ok => r.handed

\* an enabled send_email whose login the server refuses
C23_Witness ==
    /\ notice.op = "send_email"
    /\ notice.by.smtp_enabled
    /\ notice.outcome = "login failed"
    /\ ~notice.result.ok
    /\ notice.result.connections = 1

\* send_sms on a Notifier made before twilio was enabled
C23_WitnessNoClient ==
    /\ notice.op = "send_sms"
    /\ notice.by.twilio_available
    /\ notice.by.twilio_enabled
    /\ ~notice.by.twilio_client
    /\ notice.result.msg = "Twilio not configured"


\* C24: after every return or exception of Matcher.build, corpus_ids and
\* corpus_texts have the same length and pair index by index with the
\* fetched records, and vectorizer is None exactly when corpus_texts is
\* empty; a build whose fit fails leaves no vectorizer fitted on an earlier
\* corpus next to the new corpus_ids and corpus_texts
C24_BuildConsistent ==
    /\ Len(corpus_ids) = Len(corpus_texts)
    /\ Found =>
          /\ corpus_ids = IdsOf(call.snapshot)
          /\ corpus_texts = TextsOf(call.snapshot)
    /\ (vectorizer = NoVectorizer) <=> (corpus_texts = <<>>)
    /\ (vectorizer.fitted /\ ~FitRaises(corpus_texts)) =>
          vectorizer = Fit(corpus_texts)

\* C24, the part that holds: the two lists pair with the fetched records,
\* and a build that returns leaves the vectorizer of its own corpus, None
\* for the empty one
C24_PairedWithFetched ==
    /\ Len(corpus_ids) = Len(corpus_texts)
    /\ Found =>
          /\ corpus_ids = IdsOf(call.snapshot)
          /\ corpus_texts = TextsOf(call.snapshot)
          /\ call.status = "returned" =>
                /\ (vectorizer = NoVectorizer) <=> (corpus_texts = <<>>)
                /\ vectorizer.fitted => vectorizer = Fit(corpus_texts)

\* a build whose fit raised after an earlier build had fitted: the old
\* vectorizer next to the new corpus
C24_StaleVectorizer ==
    /\ Found
    /\ call.status = "raised"
    /\ vectorizer.fitted
    /\ call.prior = vectorizer
    /\ Len(corpus_texts) > 0

=============================================================================
